---- MODULE Spec2Model ----
(***************************************************************************)
(* A model of package logerr (audibleblink/logerr): the Logger value, its  *)
(* level filter, its context chain (a Go slice with a backing array), the  *)
(* message formatter, error wrapping and the package-level logger G.       *)
(*                                                                         *)
(* Go strings are modelled as sequences of one-character strings, so that  *)
(* joining, prefixing and searching are computed, not assumed.             *)
(***************************************************************************)
EXTENDS Integers, Sequences, FiniteSets, TLC

VARIABLES
    heap,          \* Logger cells: address -> Logger struct
    G,             \* the package variable G: the address of the global logger
    arrays,        \* backing arrays of the context slices: array id -> elements
    sink,          \* the io.Writer sinks: sink id -> the chunks written, in order
    colorNoColor,  \* the color library's process-wide NoColor flag
    errs,          \* error values: error id -> [msg, unwrap]
    exited,        \* TRUE once os.Exit(1) has run
    calls,         \* number of calls the program has made
    last,          \* the call that ran last, its arguments and its result
    threads        \* two threads inside the free functions SetContext and
                   \* SetLogLevel: where each is, what it read and made

vars == <<heap, G, arrays, sink, colorNoColor, errs, exited, calls, last, threads>>

----------------------------------------------------------------------------
(* Bounds of the model *)

\* number of Logger cells a program holds at one time (G's cell included)
NAddr == 3
\* longest context chain an Add may produce
MaxCtxLen == 4
\* most chunks a sink holds
MaxSink == 2
\* number of error values a program holds
NErr == 4
\* readings of the wall clock, in milliseconds
MaxClock == 1
\* number of calls a program makes
MaxCalls == 4
\* number of calls of a program that draws on the wider sets of operations
MaxWideCalls == 3

Addr == 1..NAddr
ArrIds == 1..(NAddr + 1)
ErrIds == 1..NErr

----------------------------------------------------------------------------
(* Log levels *)

LogLevelDebug == 0
LogLevelInfo == 1
LogLevelWarn == 2
LogLevelError == 3
LogLevelFatal == 4

Levels == {LogLevelDebug, LogLevelInfo, LogLevelWarn, LogLevelError, LogLevelFatal}

----------------------------------------------------------------------------
(* Strings *)

\* the separator DefaultLogger sets: " | "
DefaultSeparator == <<" ", "|", " ">>

\* the context segments and separators the calls are tried with
Segments == {<<"a">>, <<"b">>}
Separators == {DefaultSeparator, <<":", " ">>, <<>>}

\* strings.Join
RECURSIVE Join(_, _)
Join(elems, sep) ==
    IF Len(elems) = 0 THEN <<>>
    ELSE IF Len(elems) = 1 THEN elems[1]
    ELSE elems[1] \o sep \o Join(Tail(elems), sep)

\* strings.Contains
Contains(s, sub) ==
    \E i \in 1..(Len(s) - Len(sub) + 1) : SubSeq(s, i, i + Len(sub) - 1) = sub

\* strings.HasPrefix and strings.HasSuffix
HasPrefix(s, p) == Len(p) <= Len(s) /\ SubSeq(s, 1, Len(p)) = p
HasSuffix(s, p) == Len(p) <= Len(s) /\ SubSeq(s, Len(s) - Len(p) + 1, Len(s)) = p

Digits == <<"0", "1", "2", "3", "4", "5", "6", "7", "8", "9">>

\* the decimal text of a natural number, as fmt's %v prints an int
RECURSIVE FormatInt(_)
FormatInt(n) ==
    IF n < 10 THEN <<Digits[n + 1]>>
    ELSE FormatInt(n \div 10) \o <<Digits[(n % 10) + 1]>>

\* a number as digits of a fixed width, as time.Format prints a field
RECURSIVE Padded(_, _)
Padded(n, width) ==
    IF width = 0 THEN <<>>
    ELSE Padded(n \div 10, width - 1) \o <<Digits[(n % 10) + 1]>>

----------------------------------------------------------------------------
(* Values of type any that are passed as messages, and error values *)

StrVal(s) == [kind |-> "string", str |-> s, id |-> 0, n |-> 0]
ErrVal(e) == [kind |-> "error", str |-> <<>>, id |-> e, n |-> 0]
IntVal(n) == [kind |-> "int", str |-> <<>>, id |-> 0, n |-> n]

\* the texts and numbers the calls are tried with
Boom == <<"b", "o", "o", "m">>
Texts == {<<"x">>, Boom}
Numbers == {42}

\* an error value: its text and the error it wraps (NoErr: none)
NoErr == 0
ErrorValue(msg, inner) == [msg |-> msg, unwrap |-> inner]

\* an error value not allocated yet
FreshErr(es) ==
    IF DOMAIN es = ErrIds THEN NoErr
    ELSE CHOOSE e \in ErrIds \ DOMAIN es : \A f \in ErrIds \ DOMAIN es : e <= f

\* errors.Is: target is err or is in the chain err unwraps to
RECURSIVE ErrorsIs(_, _, _)
ErrorsIs(es, err, target) ==
    \/ err = target
    \/ /\ es[err].unwrap # NoErr
       /\ ErrorsIs(es, es[err].unwrap, target)

----------------------------------------------------------------------------
(* Go slices of strings: a header [arr, len, cap] over a backing array *)

\* make([]string, 0): no backing array
EmptySlice == [arr |-> 0, len |-> 0, cap |-> 0]

\* the elements a slice header shows of its backing array
Elems(arrs, sl) == IF sl.len = 0 THEN <<>> ELSE SubSeq(arrs[sl.arr], 1, sl.len)

\* a backing array no slice refers to yet
FreshArr(arrs) == CHOOSE id \in ArrIds \ DOMAIN arrs :
                      \A other \in ArrIds \ DOMAIN arrs : id <= other

\* the capacity append grows to when the array is full (runtime growslice)
GrowCap(oldCap, needed) == IF needed > 2 * oldCap THEN needed ELSE 2 * oldCap

\* []string{s}
SliceOf(arrs, s) ==
    LET id == FreshArr(arrs)
    IN  [arrays |-> (id :> <<s>>) @@ arrs,
         slice  |-> [arr |-> id, len |-> 1, cap |-> 1]]

\* append(sl, s): in place when there is room, else into a grown copy
AppendSlice(arrs, sl, s) ==
    IF sl.len < sl.cap
    THEN [arrays |-> [arrs EXCEPT ![sl.arr][sl.len + 1] = s],
          slice  |-> [sl EXCEPT !.len = sl.len + 1]]
    ELSE LET id == FreshArr(arrs)
             newCap == GrowCap(sl.cap, sl.len + 1)
         IN  [arrays |-> (id :> (Elems(arrs, sl) \o <<s>>
                                  \o [i \in 1..(newCap - sl.len - 1) |-> <<>>]))
                         @@ arrs,
              slice  |-> [arr |-> id, len |-> sl.len + 1, cap |-> newCap]]

\* the backing arrays some live logger still refers to (the rest is garbage)
Collect(h, arrs) ==
    [id \in {h[a].context.arr : a \in DOMAIN h} \cap DOMAIN arrs |-> arrs[id]]

----------------------------------------------------------------------------
(* The Logger struct and its methods, as functions of the struct value *)

\* DefaultLogger's struct literal with the level left at its zero value
DefaultLiteralZeroLevel ==
    [Level            |-> LogLevelDebug,
     Output           |-> "stderr",
     Exclusive        |-> FALSE,
     LogWrappedErrors |-> FALSE,
     context          |-> [arr |-> 0, len |-> 0, cap |-> 0],
     NoColor          |-> TRUE,
     ShowTimestamps   |-> FALSE,
     ContextSeparator |-> <<" ", "|", " ">>]

\* the struct literal of DefaultLogger, before SetContext("")
DefaultLiteral ==
    [Level            |-> LogLevelError,
     Output           |-> "stderr",
     Exclusive        |-> FALSE,
     LogWrappedErrors |-> FALSE,
     context          |-> EmptySlice,
     NoColor          |-> TRUE,
     ShowTimestamps   |-> FALSE,
     ContextSeparator |-> DefaultSeparator]

\* Logger.Context with the separator fixed to " | "
ContextFixedSeparator(arrs, l) == Join(Elems(arrs, l.context), DefaultSeparator)

\* Logger.Context
Context(arrs, l) == Join(Elems(arrs, l.context), l.ContextSeparator)

\* A method is modelled by what it leaves in the receiver's cell (recv), what it
\* returns (logger) and the backing arrays after it (arrays).

\* Logger.SetContext with a pointer receiver: the receiver is updated as well
SetContextInPlace(arrs, l, s) ==
    LET made == SliceOf(arrs, s)
        set == [l EXCEPT !.context = made.slice]
    IN  [arrays |-> made.arrays, logger |-> set, recv |-> set]

\* Logger.SetContext: value receiver, the copy is changed and returned
SetContext(arrs, l, s) ==
    LET made == SliceOf(arrs, s)
    IN  [arrays |-> made.arrays,
         logger |-> [l EXCEPT !.context = made.slice],
         recv   |-> l]

\* Logger.Add without the copy: the receiver itself is extended and returned
AddInPlace(arrs, l, s) ==
    LET app == AppendSlice(arrs, l.context, s)
        ext == [l EXCEPT !.context = app.slice]
    IN  [arrays |-> app.arrays, logger |-> ext, recv |-> ext]

\* Logger.Add: dup := *l; dup.context = append(dup.context, s); return dup
Add(arrs, l, s) ==
    LET app == AppendSlice(arrs, l.context, s)
    IN  [arrays |-> app.arrays,
         logger |-> [l EXCEPT !.context = app.slice],
         recv   |-> l]

\* Logger.ClearContext with a value receiver: the change is lost
ClearContextOfCopy(l) == l

\* Logger.ClearContext: pointer receiver, l.context = make([]string, 0)
ClearContext(l) == [l EXCEPT !.context = EmptySlice]

\* Logger.SetContextSeparator
SetContextSeparator(l, sep) == [l EXCEPT !.ContextSeparator = sep]

\* Logger.EnableColors: the receiver after it and the value it stores in the
\* color library's NoColor
EnableColors(l) == [logger |-> [l EXCEPT !.NoColor = FALSE], libNoColor |-> FALSE]

\* Logger.DisableColors
DisableColors(l) == [logger |-> [l EXCEPT !.NoColor = TRUE], libNoColor |-> TRUE]

\* Logger.EnableTimestamps
EnableTimestamps(l) == [l EXCEPT !.ShowTimestamps = TRUE]

\* Logger.DisableTimestamps with a value receiver: the change is lost
DisableTimestampsOfCopy(l) == l

\* Logger.DisableTimestamps
DisableTimestamps(l) == [l EXCEPT !.ShowTimestamps = FALSE]

\* Logger.SetLogLevel with a value receiver: the caller's logger is as it was
SetLogLevelOfCopy(l, lvl) == l

\* Logger.SetLogLevel
SetLogLevel(l, lvl) == [l EXCEPT !.Level = lvl]

----------------------------------------------------------------------------
(* Filtering and formatting *)

\* shouldLog with a strict comparison
shouldLogAbove(l, level) ==
    (l.Level = level /\ l.Exclusive) \/ (l.Level < level /\ ~l.Exclusive)

\* shouldLog without the exclusive mode
shouldLogAtLeast(l, level) == l.Level <= level

\* Logger.shouldLog
shouldLog(l, level) ==
    (l.Level = level /\ l.Exclusive) \/ (l.Level <= level /\ ~l.Exclusive)

\* labels
labels ==
    (LogLevelDebug :> <<"D", "B", "G">>) @@
    (LogLevelInfo  :> <<"I", "N", "F">>) @@
    (LogLevelWarn  :> <<"W", "R", "N">>) @@
    (LogLevelError :> <<"E", "R", "R">>) @@
    (LogLevelFatal :> <<"F", "A", "T", "A", "L">>)

\* labelColors: the escape sequence that starts each colour, as one character
labelColors ==
    (LogLevelDebug :> <<"ESC[36m">>) @@
    (LogLevelInfo  :> <<"ESC[32m">>) @@
    (LogLevelWarn  :> <<"ESC[33m">>) @@
    (LogLevelError :> <<"ESC[31m">>) @@
    (LogLevelFatal :> <<"ESC[41m">>)

\* the escape sequence that ends a colour
ColorReset == <<"ESC[0m">>

\* formatLabel: "[LABEL] ", wrapped in colour by the library's Sprintf unless
\* the library's process-wide NoColor flag (libNoColor) is set
formatLabel(level, noColor, libNoColor) ==
    LET text == <<"[">> \o labels[level] \o <<"]", " ">>
    IN  IF noColor \/ libNoColor THEN text
        ELSE labelColors[level] \o text \o ColorReset

\* time.Now().Format("2006-01-02 15:04:05.000 "), the clock at now milliseconds
\* past 2006-01-02 15:04:05
Timestamp(now) ==
    <<"2", "0", "0", "6", "-", "0", "1", "-", "0", "2", " ",
      "1", "5", ":", "0", "4", ":", "0", "5", ".">> \o Padded(now, 3) \o <<" ">>

\* formatLogMessage without the case of an empty context
formatLogMessageAlwaysSeparator(arrs, l, level, msg, now, libNoColor) ==
    LET prefix == formatLabel(level, l.NoColor, libNoColor)
        ctx == Join(Elems(arrs, l.context), l.ContextSeparator)
        timestamp == IF l.ShowTimestamps THEN Timestamp(now) ELSE <<>>
    IN  timestamp \o prefix \o ctx \o l.ContextSeparator \o msg

\* Logger.formatLogMessage
formatLogMessage(arrs, l, level, msg, now, libNoColor) ==
    LET prefix == formatLabel(level, l.NoColor, libNoColor)
        ctx == Context(arrs, l)
        timestamp == IF l.ShowTimestamps THEN Timestamp(now) ELSE <<>>
    IN  IF ctx = <<>> THEN timestamp \o prefix \o msg
        ELSE timestamp \o prefix \o ctx \o l.ContextSeparator \o msg

\* messageToString
messageToString(es, v) ==
    CASE v.kind = "string" -> v.str
      [] v.kind = "error"  -> es[v.id].msg
      [] OTHER             -> FormatInt(v.n)

\* Logger.log joining the parts of the message with nothing between them
logJoinedWithoutSpace(es, arrs, l, level, args, now, libNoColor) ==
    IF shouldLog(l, level) /\ Len(args) > 0
    THEN LET msgStr == Join([i \in 1..Len(args) |-> messageToString(es, args[i])], <<>>)
         IN  <<formatLogMessage(arrs, l, level, msgStr, now, libNoColor) \o <<"\n">>>>
    ELSE <<>>

\* Logger.log formatting an empty message when it is given no argument
logEmptyLine(es, arrs, l, level, args, now, libNoColor) ==
    IF shouldLog(l, level)
    THEN LET msgStr == Join([i \in 1..Len(args) |-> messageToString(es, args[i])],
                            <<" ">>)
         IN  <<formatLogMessage(arrs, l, level, msgStr, now, libNoColor) \o <<"\n">>>>
    ELSE <<>>

\* Logger.log: the chunks it writes to l.Output (none, or one line)
log(es, arrs, l, level, args, now, libNoColor) ==
    IF shouldLog(l, level)
    THEN IF Len(args) = 0 THEN <<>>
         ELSE LET msgStr ==
                      IF Len(args) = 1 THEN messageToString(es, args[1])
                      ELSE Join([i \in 1..Len(args) |-> messageToString(es, args[i])],
                                <<" ">>)
                  formatted == formatLogMessage(arrs, l, level, msgStr, now, libNoColor)
              IN  <<formatted \o <<"\n">>>>
    ELSE <<>>

\* the name fmt prints for the dynamic type of a value
TypeName(es, v) ==
    CASE v.kind = "string" -> <<"string">>
      [] v.kind = "int"    -> <<"int">>
      [] OTHER             -> IF es[v.id].unwrap = NoErr
                              THEN <<"*errors.errorString">>
                              ELSE <<"*fmt.wrapError">>

\* what fmt prints for one operand under one verb: %v prints a string as it
\* is, an error as its Error() text and an int in decimal; %s does so for
\* strings and errors, %d for ints; a verb that does not fit the operand
\* prints as %!verb(type=value)
formatVerb(es, verb, v) ==
    LET plain == CASE v.kind = "string" -> v.str
                   [] v.kind = "error"  -> es[v.id].msg
                   [] OTHER             -> FormatInt(v.n)
        fits == \/ verb = "v"
                \/ verb = "s" /\ v.kind \in {"string", "error"}
                \/ verb = "d" /\ v.kind = "int"
    IN  IF fits THEN plain
        ELSE <<"%", "!", verb, "(">> \o TypeName(es, v) \o <<"=">> \o plain \o <<")">>

\* the operands a format left over, as fmt lists them: type=value, type=value
RECURSIVE ExtraOperands(_, _)
ExtraOperands(es, args) ==
    IF Len(args) = 0 THEN <<>>
    ELSE TypeName(es, args[1]) \o <<"=">> \o formatVerb(es, "v", args[1])
             \o (IF Len(args) = 1 THEN <<>>
                 ELSE <<",", " ">> \o ExtraOperands(es, Tail(args)))

\* fmt.Sprintf(format, args...): text is copied, %% prints a percent sign, a
\* verb prints the next operand, a verb without operand prints %!verb(MISSING),
\* a lone % at the end prints %!(NOVERB), operands left over print as
\* %!(EXTRA type=value, ...)
RECURSIVE Sprintf(_, _, _)
Sprintf(es, format, args) ==
    IF Len(format) = 0
    THEN IF Len(args) = 0 THEN <<>>
         ELSE <<"%", "!", "(", "E", "X", "T", "R", "A", " ">>
                  \o ExtraOperands(es, args) \o <<")">>
    ELSE IF format[1] # "%"
    THEN <<format[1]>> \o Sprintf(es, Tail(format), args)
    ELSE IF Len(format) = 1
    THEN <<"%", "!", "(", "N", "O", "V", "E", "R", "B", ")">> \o Sprintf(es, <<>>, args)
    ELSE IF format[2] = "%"
    THEN <<"%">> \o Sprintf(es, SubSeq(format, 3, Len(format)), args)
    ELSE IF Len(args) = 0
    THEN <<"%", "!", format[2], "(", "M", "I", "S", "S", "I", "N", "G", ")">>
             \o Sprintf(es, SubSeq(format, 3, Len(format)), args)
    ELSE formatVerb(es, format[2], args[1])
             \o Sprintf(es, SubSeq(format, 3, Len(format)), Tail(args))

\* Logger.logf handing the format and the operands to log as they are
logfUninterpolated(es, arrs, l, level, format, args, now, libNoColor) ==
    IF shouldLog(l, level)
    THEN log(es, arrs, l, level, <<StrVal(format)>> \o args, now, libNoColor)
    ELSE <<>>

\* Logger.logf: the chunks it writes to l.Output
logf(es, arrs, l, level, format, args, now, libNoColor) ==
    IF shouldLog(l, level)
    THEN log(es, arrs, l, level, <<StrVal(Sprintf(es, format, args))>>, now, libNoColor)
    ELSE <<>>

\* the status Fatal and Fatalf pass to os.Exit
ExitStatus == 1

\* Fatal with os.Exit inside the branch that logs
FatalExitsWhenLogged(es, arrs, l, args, now, libNoColor) ==
    [out    |-> log(es, arrs, l, LogLevelFatal, args, now, libNoColor),
     exits  |-> shouldLog(l, LogLevelFatal) /\ Len(args) > 0,
     status |-> ExitStatus]

\* Logger.Fatal: the chunks it writes to l.Output, and the os.Exit(1) that
\* follows: whether the process exits and with which status
Fatal(es, arrs, l, args, now, libNoColor) ==
    [out    |-> log(es, arrs, l, LogLevelFatal, args, now, libNoColor),
     exits  |-> TRUE,
     status |-> ExitStatus]

\* Logger.Fatalf
Fatalf(es, arrs, l, format, args, now, libNoColor) ==
    [out    |-> logf(es, arrs, l, LogLevelFatal, format, args, now, libNoColor),
     exits  |-> TRUE,
     status |-> ExitStatus]

----------------------------------------------------------------------------
(* Wrap *)

\* Wrap's type switch: the error to wrap and the errors allocated so far
WrapInner(es, v) ==
    CASE v.kind = "error"  -> [errs |-> es, err |-> v.id]
      [] v.kind = "string" -> [errs |-> (FreshErr(es) :> ErrorValue(v.str, NoErr)) @@ es,
                               err  |-> FreshErr(es)]
      [] OTHER             -> [errs |-> (FreshErr(es) :> ErrorValue(FormatInt(v.n), NoErr)) @@ es,
                               err  |-> FreshErr(es)]

\* Wrap logging on every call
WrapLogsAlways(l) == TRUE

\* Wrap's test of LogWrappedErrors
WrapLogs(l) == l.LogWrappedErrors

\* Wrap's text with " | " for a separator
WrapTextFixedSeparator(arrs, l, inner) ==
    Context(arrs, l) \o DefaultSeparator \o inner

\* the text of Wrap's result: fmt.Errorf("%s%s%w", l.Context(), l.ContextSeparator, err)
WrapText(arrs, l, inner) == Context(arrs, l) \o l.ContextSeparator \o inner

\* Wrap formatting its error with %v: the result wraps nothing
WrapUnwrapNone(err) == NoErr

\* the error Wrap's result unwraps to: the operand of %w
WrapUnwrap(err) == err

\* Logger.Wrap: the errors after it, the error it returns and the chunks it
\* writes to l.Output
Wrap(es, arrs, l, v, now, libNoColor) ==
    LET inner == WrapInner(es, v)
        out == IF WrapLogs(l)
               THEN log(inner.errs, arrs, l, LogLevelError, <<ErrVal(inner.err)>>,
                        now, libNoColor)
               ELSE <<>>
        res == FreshErr(inner.errs)
    IN  [errs |-> (res :> ErrorValue(WrapText(arrs, l, inner.errs[inner.err].msg),
                                WrapUnwrap(inner.err))) @@ inner.errs,
         err  |-> res,
         out  |-> out]

----------------------------------------------------------------------------
(* Cells *)

\* the writers a program logs to: standard error and a buffer of its own
Sinks == {"stderr", "buf"}

\* the result of a call is dropped, not assigned
Discard == 0

\* a cell for a new Logger: the lowest free address
FreshAddr(h) ==
    IF DOMAIN h = Addr THEN Discard
    ELSE CHOOSE a \in Addr \ DOMAIN h : \A b \in Addr \ DOMAIN h : a <= b

\* where the caller of a method of the logger at a may keep the result: in a
\* new variable, in the variable that held the receiver, or nowhere
Targets(a) == ({Discard, FreshAddr(heap), a} \ {G}) \cap ({Discard} \cup Addr)

\* what is recorded of a logger before a call
Snapshot(a) == [logger |-> heap[a], elems |-> Elems(arrays, heap[a].context),
                rendered |-> Context(arrays, heap[a])]

NoSnapshot == [logger |-> DefaultLiteral, elems |-> <<>>, rendered |-> <<>>]

\* the record of a call: what was called on which logger with which argument,
\* where its result went, the logger and the sinks before it
Called(op, recv, res, arg, pre) ==
    [op |-> op, recv |-> recv, res |-> res, arg |-> arg, level |-> -1,
     pre |-> pre, sinkBefore |-> sink]

\* the record of a levelled call
CalledAt(op, recv, level, args, pre) ==
    [op |-> op, recv |-> recv, res |-> Discard, arg |-> args, level |-> level,
     pre |-> pre, sinkBefore |-> sink]

\* the cells after storing logger l at address t, garbage arrays dropped
Store(h, arrs, t, l) ==
    LET h2 == IF t = Discard THEN h ELSE (t :> l) @@ h
    IN  [heap |-> h2, arrays |-> Collect(h2, arrs)]

\* G = &l with the assignment left out: the cells and G stay as they are
StoreGlobalKeeps(h, arrs, l) == [heap |-> h, arrays |-> arrs, G |-> G]

\* G = &l with G pointed at a cell the caller already holds when one holds l
StoreGlobalShared(h, arrs, l) ==
    LET same == {a \in DOMAIN h \ {G} : h[a] = l}
        kept == [a \in DOMAIN h \ {G} |-> h[a]]
        t == IF same = {} THEN FreshAddr(kept) ELSE CHOOSE a \in same : TRUE
        h2 == (t :> l) @@ kept
    IN  [heap |-> h2, arrays |-> Collect(h2, arrs), G |-> t]

\* the cells after G is pointed at a new cell holding l; G's old cell is garbage
StoreGlobal(h, arrs, l) ==
    LET kept == [a \in DOMAIN h \ {G} |-> h[a]]
        t == FreshAddr(kept)
        h2 == (t :> l) @@ kept
    IN  [heap |-> h2, arrays |-> Collect(h2, arrs), G |-> t]

\* no thread has entered SetContext or SetLogLevel yet
NoThreads ==
    [SetContext  |-> [pc |-> "idle", g |-> Discard, ret |-> Discard, context |-> <<>>],
     SetLogLevel |-> [pc |-> "idle", g |-> Discard, lvl |-> LogLevelDebug],
     overlapped  |-> FALSE]

----------------------------------------------------------------------------
(* Initial state: the package is initialised, var G = DefaultLogger() *)

Init ==
    LET made == SetContext(<<>>, DefaultLiteral, <<>>)
    IN  /\ heap = (1 :> made.logger)
        /\ G = 1
        /\ arrays = made.arrays
        /\ sink = [o \in Sinks |-> <<>>]
        /\ colorNoColor = TRUE
        /\ errs = (1 :> ErrorValue(Boom, NoErr))   \* err := errors.New("boom")
        /\ exited = FALSE
        /\ calls = 0
        /\ last = [Called("init", 0, 0, <<>>, NoSnapshot) EXCEPT
                       !.sinkBefore = [o \in Sinks |-> <<>>]]
        /\ threads = NoThreads

----------------------------------------------------------------------------
(* Context operations *)

\* the process is alive and the program has calls left to make
Running == ~exited /\ calls < MaxCalls

\* x := DefaultLogger()
CallDefaultLogger(t) ==
    /\ Running
    /\ calls' = calls + 1
    /\ UNCHANGED threads
    /\ t \in Targets(G)
    /\ LET made == SetContext(arrays, DefaultLiteral, <<>>)
           st == Store(heap, made.arrays, t, made.logger)
       IN  /\ heap' = st.heap
           /\ arrays' = st.arrays
    /\ colorNoColor' = DefaultLiteral.NoColor
    /\ last' = Called("DefaultLogger", 0, t, <<>>, NoSnapshot)
    /\ UNCHANGED <<G, sink, errs, exited>>

\* x := l.SetContext(s), l the logger at a
CallSetContext(a, t, s) ==
    /\ Running
    /\ calls' = calls + 1
    /\ UNCHANGED threads
    /\ a \in DOMAIN heap
    /\ t \in Targets(a)
    /\ LET made == SetContext(arrays, heap[a], s)
           st == Store((a :> made.recv) @@ heap, made.arrays, t, made.logger)
       IN  /\ heap' = st.heap
           /\ arrays' = st.arrays
    /\ last' = Called("SetContext", a, t, s, Snapshot(a))
    /\ UNCHANGED <<G, sink, colorNoColor, errs, exited>>

\* x := l.Add(s), l the logger at a
CallAdd(a, t, s) ==
    /\ Running
    /\ calls' = calls + 1
    /\ UNCHANGED threads
    /\ a \in DOMAIN heap \ {G}
    /\ t \in Targets(a)
    /\ heap[a].context.len < MaxCtxLen
    /\ LET made == Add(arrays, heap[a], s)
           st == Store((a :> made.recv) @@ heap, made.arrays, t, made.logger)
       IN  /\ heap' = st.heap
           /\ arrays' = st.arrays
    /\ last' = Called("Add", a, t, s, Snapshot(a))
    /\ UNCHANGED <<G, sink, colorNoColor, errs, exited>>

\* l.ClearContext(), l the logger at a
CallClearContext(a) ==
    /\ Running
    /\ calls' = calls + 1
    /\ UNCHANGED threads
    /\ a \in DOMAIN heap \ {G}
    /\ LET st == Store(heap, arrays, a, ClearContext(heap[a]))
       IN  /\ heap' = st.heap
           /\ arrays' = st.arrays
    /\ last' = Called("ClearContext", a, a, <<>>, Snapshot(a))
    /\ UNCHANGED <<G, sink, colorNoColor, errs, exited>>

\* l.SetContextSeparator(sep), l the logger at a
CallSetContextSeparator(a, sep) ==
    /\ Running
    /\ calls' = calls + 1
    /\ UNCHANGED threads
    /\ a \in DOMAIN heap \ {G}
    /\ heap' = [heap EXCEPT ![a] = SetContextSeparator(heap[a], sep)]
    /\ last' = Called("SetContextSeparator", a, a, sep, Snapshot(a))
    /\ UNCHANGED <<G, arrays, sink, colorNoColor, errs, exited>>

\* l.SetAsGlobal(), l the logger at a: G = &l, l the copy the method received
CallSetAsGlobal(a) ==
    /\ Running
    /\ calls' = calls + 1
    /\ UNCHANGED threads
    /\ a \in DOMAIN heap
    /\ a # G
    /\ LET st == StoreGlobal(heap, arrays, heap[a])
       IN  /\ heap' = st.heap
           /\ arrays' = st.arrays
           /\ G' = st.G
           /\ last' = Called("SetAsGlobal", a, st.G, <<>>, Snapshot(a))
    /\ UNCHANGED <<sink, colorNoColor, errs, exited>>

\* the free function SetContext(s): G = G.SetContext(s)
GlobalSetContext(s) ==
    /\ Running
    /\ calls' = calls + 1
    /\ UNCHANGED threads
    /\ LET made == SetContext(arrays, heap[G], s)
           st == StoreGlobal(heap, made.arrays, made.logger)
       IN  /\ heap' = st.heap
           /\ arrays' = st.arrays
           /\ G' = st.G
           /\ last' = Called("GlobalSetContext", G, st.G, s, Snapshot(G))
    /\ UNCHANGED <<sink, colorNoColor, errs, exited>>

\* the free function ClearContext(): G.ClearContext()
GlobalClearContext ==
    /\ Running
    /\ calls' = calls + 1
    /\ UNCHANGED threads
    /\ LET st == Store(heap, arrays, G, ClearContext(heap[G]))
       IN  /\ heap' = st.heap
           /\ arrays' = st.arrays
    /\ last' = Called("GlobalClearContext", G, G, <<>>, Snapshot(G))
    /\ UNCHANGED <<G, sink, colorNoColor, errs, exited>>

\* x := Add(s), the free function: G.Add(s)
GlobalAdd(t, s) ==
    /\ Running
    /\ calls' = calls + 1
    /\ UNCHANGED threads
    /\ t \in Targets(G)
    /\ heap[G].context.len < MaxCtxLen
    /\ LET made == Add(arrays, heap[G], s)
           st == Store((G :> made.recv) @@ heap, made.arrays, t, made.logger)
       IN  /\ heap' = st.heap
           /\ arrays' = st.arrays
    /\ last' = Called("GlobalAdd", G, t, s, Snapshot(G))
    /\ UNCHANGED <<G, sink, colorNoColor, errs, exited>>

\* the free function SetContextSeparator(sep): G = G.SetContextSeparator(sep)
GlobalSetContextSeparator(sep) ==
    /\ Running
    /\ calls' = calls + 1
    /\ UNCHANGED threads
    /\ heap' = [heap EXCEPT ![G] = SetContextSeparator(heap[G], sep)]
    /\ last' = Called("GlobalSetContextSeparator", G, G, sep, Snapshot(G))
    /\ UNCHANGED <<G, arrays, sink, colorNoColor, errs, exited>>

----------------------------------------------------------------------------
(* Configuration, logging and wrapping *)

\* the message arguments the levelled calls are tried with
ArgLists ==
    {<<>>, <<StrVal(<<"x">>)>>, <<StrVal(<<"x">>), IntVal(42)>>}
        \cup {<<ErrVal(e)>> : e \in DOMAIN errs}

\* the values Wrap is tried with
WrapValues ==
    {StrVal(t) : t \in Texts} \cup {IntVal(n) : n \in Numbers}
        \cup {ErrVal(e) : e \in DOMAIN errs}

\* a writer that puts what is written in front of what it holds
WrittenInFront(l, out) == [sink EXCEPT ![l.Output] = out \o @]

\* the sinks after the logger l has written the chunks out
Written(l, out) == [sink EXCEPT ![l.Output] = @ \o out]

\* l.Output = output: the caller points the logger at a writer
AssignOutput(a, output) ==
    /\ Running
    /\ calls' = calls + 1
    /\ UNCHANGED threads
    /\ a \in DOMAIN heap
    /\ heap' = [heap EXCEPT ![a].Output = output]
    /\ last' = Called("AssignOutput", a, a, <<>>, Snapshot(a))
    /\ UNCHANGED <<G, arrays, sink, colorNoColor, errs, exited>>

\* l.Level = level; l.Exclusive = exclusive; l.LogWrappedErrors = logWrapped:
\* the caller's assignments to the exported fields that steer filtering
AssignFields(a, level, exclusive, logWrapped) ==
    /\ Running
    /\ calls' = calls + 1
    /\ UNCHANGED threads
    /\ a \in DOMAIN heap
    /\ heap' = [heap EXCEPT ![a] = [@ EXCEPT !.Level = level,
                                             !.Exclusive = exclusive,
                                             !.LogWrappedErrors = logWrapped]]
    /\ last' = Called("AssignFields", a, a, <<>>, Snapshot(a))
    /\ UNCHANGED <<G, arrays, sink, colorNoColor, errs, exited>>

\* l.Debug(args...), l.Info(args...), l.Warn(args...) or l.Error(args...)
CallLog(a, level, args, now) ==
    /\ Running
    /\ calls' = calls + 1
    /\ UNCHANGED threads
    /\ a \in DOMAIN heap
    /\ level \in Levels \ {LogLevelFatal}
    /\ Len(sink[heap[a].Output]) < MaxSink
    /\ sink' = Written(heap[a], log(errs, arrays, heap[a], level, args, now, colorNoColor))
    /\ last' = CalledAt("Log", a, level, args, Snapshot(a))
    /\ UNCHANGED <<heap, G, arrays, colorNoColor, errs, exited>>

\* l.Fatal(args...): log, then os.Exit(1)
CallFatal(a, args, now) ==
    /\ Running
    /\ calls' = calls + 1
    /\ UNCHANGED threads
    /\ a \in DOMAIN heap
    /\ Len(sink[heap[a].Output]) < MaxSink
    /\ LET f == Fatal(errs, arrays, heap[a], args, now, colorNoColor)
       IN  /\ sink' = Written(heap[a], f.out)
           /\ exited' = f.exits
           /\ last' = [CalledAt("Fatal", a, LogLevelFatal, args, Snapshot(a))
                           EXCEPT !.res = IF f.exits THEN f.status ELSE Discard]
    /\ UNCHANGED <<heap, G, arrays, colorNoColor, errs>>

\* the formats and operands the formatted calls are tried with
FormatCalls ==
    {[format |-> <<"x">>, args |-> <<>>],
     [format |-> <<"%", "s", "=", "%", "d">>, args |-> <<StrVal(<<"x">>), IntVal(42)>>]}
        \cup {[format |-> <<"e", ":", " ", "%", "v">>, args |-> <<ErrVal(e)>>] :
                  e \in DOMAIN errs}

\* l.Debugf(format, args...), l.Infof(..), l.Warnf(..) or l.Errorf(..)
CallLogf(a, level, call, now) ==
    /\ Running
    /\ calls' = calls + 1
    /\ UNCHANGED threads
    /\ a \in DOMAIN heap
    /\ level \in Levels \ {LogLevelFatal}
    /\ Len(sink[heap[a].Output]) < MaxSink
    /\ sink' = Written(heap[a], logf(errs, arrays, heap[a], level, call.format,
                                     call.args, now, colorNoColor))
    /\ last' = CalledAt("Logf", a, level, call, Snapshot(a))
    /\ UNCHANGED <<heap, G, arrays, colorNoColor, errs, exited>>

\* l.Fatalf(format, args...): logf, then os.Exit(1)
CallFatalf(a, call, now) ==
    /\ Running
    /\ calls' = calls + 1
    /\ UNCHANGED threads
    /\ a \in DOMAIN heap
    /\ Len(sink[heap[a].Output]) < MaxSink
    /\ LET f == Fatalf(errs, arrays, heap[a], call.format, call.args, now,
                       colorNoColor)
       IN  /\ sink' = Written(heap[a], f.out)
           /\ exited' = f.exits
           /\ last' = [CalledAt("Fatalf", a, LogLevelFatal, call, Snapshot(a))
                           EXCEPT !.res = IF f.exits THEN f.status ELSE Discard]
    /\ UNCHANGED <<heap, G, arrays, colorNoColor, errs>>

\* err := l.Wrap(v), l the logger at a
CallWrap(a, v, now) ==
    /\ Running
    /\ calls' = calls + 1
    /\ UNCHANGED threads
    /\ a \in DOMAIN heap
    /\ Cardinality(DOMAIN errs) + 2 <= NErr
    /\ Len(sink[heap[a].Output]) < MaxSink
    /\ LET w == Wrap(errs, arrays, heap[a], v, now, colorNoColor)
       IN  /\ errs' = w.errs
           /\ sink' = Written(heap[a], w.out)
           /\ last' = Called("Wrap", a, w.err, v, Snapshot(a))
    /\ UNCHANGED <<heap, G, arrays, colorNoColor, exited>>

\* err := Wrap(v), the free function: G.Wrap(v)
GlobalWrap(v, now) ==
    /\ Running
    /\ calls' = calls + 1
    /\ UNCHANGED threads
    /\ Cardinality(DOMAIN errs) + 2 <= NErr
    /\ Len(sink[heap[G].Output]) < MaxSink
    /\ LET w == Wrap(errs, arrays, heap[G], v, now, colorNoColor)
       IN  /\ errs' = w.errs
           /\ sink' = Written(heap[G], w.out)
           /\ last' = Called("GlobalWrap", G, w.err, v, Snapshot(G))
    /\ UNCHANGED <<heap, G, arrays, colorNoColor, exited>>

----------------------------------------------------------------------------
(* Timestamps and the level, by the methods and by the free functions *)

\* l.EnableTimestamps(), l the logger at a
CallEnableTimestamps(a) ==
    /\ Running
    /\ calls' = calls + 1
    /\ UNCHANGED threads
    /\ a \in DOMAIN heap \ {G}
    /\ heap' = [heap EXCEPT ![a] = EnableTimestamps(heap[a])]
    /\ last' = Called("EnableTimestamps", a, a, <<>>, Snapshot(a))
    /\ UNCHANGED <<G, arrays, sink, colorNoColor, errs, exited>>

\* l.DisableTimestamps(), l the logger at a
CallDisableTimestamps(a) ==
    /\ Running
    /\ calls' = calls + 1
    /\ UNCHANGED threads
    /\ a \in DOMAIN heap \ {G}
    /\ heap' = [heap EXCEPT ![a] = DisableTimestamps(heap[a])]
    /\ last' = Called("DisableTimestamps", a, a, <<>>, Snapshot(a))
    /\ UNCHANGED <<G, arrays, sink, colorNoColor, errs, exited>>

\* the free function EnableTimestamps(): G = G.EnableTimestamps()
GlobalEnableTimestamps ==
    /\ Running
    /\ calls' = calls + 1
    /\ UNCHANGED threads
    /\ heap' = [heap EXCEPT ![G] = EnableTimestamps(heap[G])]
    /\ last' = Called("GlobalEnableTimestamps", G, G, <<>>, Snapshot(G))
    /\ UNCHANGED <<G, arrays, sink, colorNoColor, errs, exited>>

\* the free function DisableTimestamps(): G = G.DisableTimestamps()
GlobalDisableTimestamps ==
    /\ Running
    /\ calls' = calls + 1
    /\ UNCHANGED threads
    /\ heap' = [heap EXCEPT ![G] = DisableTimestamps(heap[G])]
    /\ last' = Called("GlobalDisableTimestamps", G, G, <<>>, Snapshot(G))
    /\ UNCHANGED <<G, arrays, sink, colorNoColor, errs, exited>>

\* l.SetLogLevel(lvl), l the logger at a
CallSetLogLevel(a, lvl) ==
    /\ Running
    /\ calls' = calls + 1
    /\ UNCHANGED threads
    /\ a \in DOMAIN heap
    /\ heap' = [heap EXCEPT ![a] = SetLogLevel(heap[a], lvl)]
    /\ last' = Called("SetLogLevel", a, a, lvl, Snapshot(a))
    /\ UNCHANGED <<G, arrays, sink, colorNoColor, errs, exited>>

\* the free function SetLogLevel(lvl): G = G.SetLogLevel(lvl)
GlobalSetLogLevel(lvl) ==
    /\ Running
    /\ calls' = calls + 1
    /\ UNCHANGED threads
    /\ heap' = [heap EXCEPT ![G] = SetLogLevel(heap[G], lvl)]
    /\ last' = Called("GlobalSetLogLevel", G, G, lvl, Snapshot(G))
    /\ UNCHANGED <<G, arrays, sink, colorNoColor, errs, exited>>

----------------------------------------------------------------------------
(* The free functions SetContext and SetLogLevel run by two threads, without
   synchronisation: each is a read of G, a method call and a store to G *)

\* a thread is between its read of G and its store to G
Inside(pc) == pc \in {"read", "called"}

\* SetContext(context) evaluates G, the receiver of the call
SetContextRead(context) ==
    /\ ~exited
    /\ threads.SetContext.pc = "idle"
    /\ threads' = [threads EXCEPT
                      !.SetContext = [pc |-> "read", g |-> G, ret |-> Discard,
                                      context |-> context],
                      !.overlapped = @ \/ Inside(threads.SetLogLevel.pc)]
    /\ UNCHANGED <<heap, G, arrays, sink, colorNoColor, errs, exited, calls, last>>

\* ... calls Logger.SetContext on a copy of the logger read through it ...
SetContextCall ==
    /\ threads.SetContext.pc = "read"
    /\ LET made == SetContext(arrays, heap[threads.SetContext.g],
                              threads.SetContext.context)
           t == FreshAddr(heap)
       IN  /\ heap' = (t :> made.logger) @@ heap
           /\ arrays' = made.arrays
           /\ threads' = [threads EXCEPT !.SetContext.pc = "called",
                                         !.SetContext.ret = t]
    /\ UNCHANGED <<G, sink, colorNoColor, errs, exited, calls, last>>

\* ... and stores the pointer it returned in G
SetContextAssign ==
    /\ threads.SetContext.pc = "called"
    /\ G' = threads.SetContext.ret
    /\ threads' = [threads EXCEPT !.SetContext.pc = "done"]
    /\ UNCHANGED <<heap, arrays, sink, colorNoColor, errs, exited, calls, last>>

\* SetLogLevel(lvl) evaluates G, the receiver of the call
SetLogLevelRead(lvl) ==
    /\ ~exited
    /\ threads.SetLogLevel.pc = "idle"
    /\ threads' = [threads EXCEPT
                      !.SetLogLevel = [pc |-> "read", g |-> G, lvl |-> lvl],
                      !.overlapped = @ \/ Inside(threads.SetContext.pc)]
    /\ UNCHANGED <<heap, G, arrays, sink, colorNoColor, errs, exited, calls, last>>

\* ... calls Logger.SetLogLevel on the logger it points at ...
SetLogLevelCall ==
    /\ threads.SetLogLevel.pc = "read"
    /\ heap' = [heap EXCEPT ![threads.SetLogLevel.g] =
                                SetLogLevel(@, threads.SetLogLevel.lvl)]
    /\ threads' = [threads EXCEPT !.SetLogLevel.pc = "called"]
    /\ UNCHANGED <<G, arrays, sink, colorNoColor, errs, exited, calls, last>>

\* ... and stores the pointer it returned, its receiver, in G
SetLogLevelAssign ==
    /\ threads.SetLogLevel.pc = "called"
    /\ G' = threads.SetLogLevel.g
    /\ threads' = [threads EXCEPT !.SetLogLevel.pc = "done"]
    /\ UNCHANGED <<heap, arrays, sink, colorNoColor, errs, exited, calls, last>>

----------------------------------------------------------------------------
(* Colours *)

\* l.EnableColors(), l the logger at a
CallEnableColors(a) ==
    /\ Running
    /\ calls' = calls + 1
    /\ UNCHANGED threads
    /\ a \in DOMAIN heap \ {G}
    /\ heap' = [heap EXCEPT ![a] = EnableColors(heap[a]).logger]
    /\ colorNoColor' = EnableColors(heap[a]).libNoColor
    /\ last' = Called("EnableColors", a, a, <<>>, Snapshot(a))
    /\ UNCHANGED <<G, arrays, sink, errs, exited>>

\* l.DisableColors(), l the logger at a
CallDisableColors(a) ==
    /\ Running
    /\ calls' = calls + 1
    /\ UNCHANGED threads
    /\ a \in DOMAIN heap
    /\ heap' = [heap EXCEPT ![a] = DisableColors(heap[a]).logger]
    /\ colorNoColor' = DisableColors(heap[a]).libNoColor
    /\ last' = Called("DisableColors", a, a, <<>>, Snapshot(a))
    /\ UNCHANGED <<G, arrays, sink, errs, exited>>

\* the free function EnableColors(): G.EnableColors()
GlobalEnableColors ==
    /\ Running
    /\ calls' = calls + 1
    /\ UNCHANGED threads
    /\ heap' = [heap EXCEPT ![G] = EnableColors(heap[G]).logger]
    /\ colorNoColor' = EnableColors(heap[G]).libNoColor
    /\ last' = Called("GlobalEnableColors", G, G, <<>>, Snapshot(G))
    /\ UNCHANGED <<G, arrays, sink, errs, exited>>

----------------------------------------------------------------------------
(* The free functions that log and read the context *)

\* Debug(args...), Info(args...), Warn(args...) or Error(args...), the free
\* functions: G.Debug(args...) and so on
GlobalLog(level, args, now) ==
    /\ Running
    /\ calls' = calls + 1
    /\ UNCHANGED threads
    /\ level \in Levels \ {LogLevelFatal}
    /\ Len(sink[heap[G].Output]) < MaxSink
    /\ sink' = Written(heap[G], log(errs, arrays, heap[G], level, args, now, colorNoColor))
    /\ last' = CalledAt("GlobalLog", G, level, args, Snapshot(G))
    /\ UNCHANGED <<heap, G, arrays, colorNoColor, errs, exited>>

\* Debugf(format, vals...), Infof(..), Warnf(..) or Errorf(..), the free
\* functions: G.Debugf(format, vals...) and so on
GlobalLogf(level, call, now) ==
    /\ Running
    /\ calls' = calls + 1
    /\ UNCHANGED threads
    /\ level \in Levels \ {LogLevelFatal}
    /\ Len(sink[heap[G].Output]) < MaxSink
    /\ sink' = Written(heap[G], logf(errs, arrays, heap[G], level, call.format,
                                     call.args, now, colorNoColor))
    /\ last' = CalledAt("GlobalLogf", G, level, call, Snapshot(G))
    /\ UNCHANGED <<heap, G, arrays, colorNoColor, errs, exited>>

\* s := Context(), the free function: G.Context()
GlobalContext ==
    /\ Running
    /\ calls' = calls + 1
    /\ UNCHANGED threads
    /\ last' = Called("GlobalContext", G, Context(arrays, heap[G]), <<>>, Snapshot(G))
    /\ UNCHANGED <<heap, G, arrays, sink, colorNoColor, errs, exited>>

\* s := l.Context(), l the logger at a
CallContext(a) ==
    /\ Running
    /\ calls' = calls + 1
    /\ UNCHANGED threads
    /\ a \in DOMAIN heap \ {G}
    /\ last' = Called("Context", a, Context(arrays, heap[a]), <<>>, Snapshot(a))
    /\ UNCHANGED <<heap, G, arrays, sink, colorNoColor, errs, exited>>

----------------------------------------------------------------------------
(* Programs that derive and scope loggers, with the separator left alone *)

NextCtx ==
    \/ \E a \in Addr : \E t \in Targets(a), s \in Segments : CallSetContext(a, t, s)
    \/ \E a \in Addr : \E t \in Targets(a), s \in Segments : CallAdd(a, t, s)
    \/ \E a \in Addr : CallClearContext(a)
    \/ \E a \in Addr : CallSetAsGlobal(a)
    \/ \E s \in Segments : GlobalSetContext(s)
    \/ GlobalClearContext
    \/ \E t \in Targets(G), s \in Segments : GlobalAdd(t, s)

SpecCtx == Init /\ [][NextCtx]_vars

----------------------------------------------------------------------------
(* Shorter programs that also create loggers and change the separator *)

NextJoin ==
    /\ calls < MaxWideCalls
    /\ \/ NextCtx
       \/ \E t \in Targets(G) : CallDefaultLogger(t)
       \/ \E a \in Addr, sep \in Separators : CallSetContextSeparator(a, sep)
       \/ \E sep \in Separators : GlobalSetContextSeparator(sep)

SpecJoin == Init /\ [][NextJoin]_vars

----------------------------------------------------------------------------
(* Programs that configure loggers and log through them *)

NextLog ==
    /\ calls < MaxWideCalls
    /\ \/ \E t \in Targets(G) : CallDefaultLogger(t)
       \/ \E a \in Addr, level \in Levels, exclusive, logWrapped \in BOOLEAN :
             AssignFields(a, level, exclusive, logWrapped)
       \/ \E a \in Addr, output \in Sinks : AssignOutput(a, output)
       \/ \E a \in Addr, level \in Levels, args \in ArgLists, now \in 0..MaxClock :
             CallLog(a, level, args, now)
       \/ \E a \in Addr, args \in ArgLists, now \in 0..MaxClock : CallFatal(a, args, now)

SpecLog == Init /\ [][NextLog]_vars

----------------------------------------------------------------------------
(* Programs that wrap errors *)

NextWrap ==
    /\ calls < MaxWideCalls
    /\ \/ \E a \in Addr, level \in Levels, exclusive, logWrapped \in BOOLEAN :
             AssignFields(a, level, exclusive, logWrapped)
       \/ \E a \in Addr : \E t \in Targets(a), s \in Segments : CallSetContext(a, t, s)
       \/ \E a \in Addr, sep \in Separators : CallSetContextSeparator(a, sep)
       \/ \E s \in Segments : GlobalSetContext(s)
       \/ \E sep \in Separators : GlobalSetContextSeparator(sep)
       \/ \E a \in Addr, v \in WrapValues, now \in 0..MaxClock : CallWrap(a, v, now)
       \/ \E v \in WrapValues, now \in 0..MaxClock : GlobalWrap(v, now)

SpecWrap == Init /\ [][NextWrap]_vars

----------------------------------------------------------------------------
(* Programs that log "x" at the four levels through loggers left as          *)
(* DefaultLogger made them, to standard error or to a writer of their own    *)

NextDefault ==
    \/ \E t \in Targets(G) : CallDefaultLogger(t)
    \/ \E a \in Addr, output \in Sinks : AssignOutput(a, output)
    \/ \E a \in Addr, level \in Levels, now \in 0..MaxClock :
          CallLog(a, level, <<StrVal(<<"x">>)>>, now)

SpecDefault == Init /\ [][NextDefault]_vars

----------------------------------------------------------------------------
(* Programs that set the filter, log and call Fatal or Fatalf *)

NextFatal ==
    /\ calls < MaxWideCalls
    /\ \/ \E a \in Addr, level \in Levels, exclusive, logWrapped \in BOOLEAN :
             AssignFields(a, level, exclusive, logWrapped)
       \/ \E a \in Addr, level \in Levels, args \in ArgLists, now \in 0..MaxClock :
             CallLog(a, level, args, now)
       \/ \E a \in Addr, args \in ArgLists, now \in 0..MaxClock : CallFatal(a, args, now)
       \/ \E a \in Addr, call \in FormatCalls, now \in 0..MaxClock :
             CallFatalf(a, call, now)

SpecFatal == Init /\ [][NextFatal]_vars

----------------------------------------------------------------------------
(* Programs that set context, separator, timestamps and level, and log *)

\* the message arguments these programs log
FormatArgLists ==
    {<<StrVal(<<"x">>)>>, <<IntVal(42)>>}
        \cup {<<StrVal(<<"x">>), ErrVal(e), IntVal(42)>> : e \in DOMAIN errs}

NextFormat ==
    /\ calls < MaxWideCalls
    /\ \/ \E a \in Addr : \E t \in Targets(a), s \in Segments : CallSetContext(a, t, s)
       \/ \E s \in Segments : GlobalSetContext(s)
       \/ \E t \in Targets(G), s \in Segments : GlobalAdd(t, s)
       \/ GlobalClearContext
       \/ \E a \in Addr, sep \in Separators : CallSetContextSeparator(a, sep)
       \/ \E sep \in Separators : GlobalSetContextSeparator(sep)
       \/ \E a \in Addr : CallEnableTimestamps(a)
       \/ \E a \in Addr : CallDisableTimestamps(a)
       \/ GlobalEnableTimestamps
       \/ GlobalDisableTimestamps
       \/ \E a \in Addr, lvl \in Levels : CallSetLogLevel(a, lvl)
       \/ \E a \in Addr, level \in Levels, args \in FormatArgLists, now \in 0..MaxClock :
             CallLog(a, level, args, now)

SpecFormat == Init /\ [][NextFormat]_vars

----------------------------------------------------------------------------
(* Programs that set the filter, context and timestamps and log by formats *)

NextLogf ==
    /\ calls < MaxWideCalls
    /\ \/ \E a \in Addr, level \in Levels, exclusive, logWrapped \in BOOLEAN :
             AssignFields(a, level, exclusive, logWrapped)
       \/ \E s \in Segments : GlobalSetContext(s)
       \/ GlobalEnableTimestamps
       \/ \E a \in Addr, level \in Levels, call \in FormatCalls, now \in 0..MaxClock :
             CallLogf(a, level, call, now)
       \/ \E a \in Addr, call \in FormatCalls, now \in 0..MaxClock :
             CallFatalf(a, call, now)

SpecLogf == Init /\ [][NextLogf]_vars

----------------------------------------------------------------------------
(* Programs that install loggers as the global one and use the free functions *)

NextGlobal ==
    \/ \E a \in Addr : \E t \in Targets(a), s \in Segments : CallSetContext(a, t, s)
    \/ \E a \in Addr, output \in Sinks : AssignOutput(a, output)
    \/ \E a \in Addr : CallSetAsGlobal(a)
    \/ \E level \in Levels, now \in 0..MaxClock :
          GlobalLog(level, <<StrVal(<<"x">>)>>, now)
    \/ \E level \in Levels, now \in 0..MaxClock :
          GlobalLogf(level, [format |-> <<"%", "s", "=", "%", "d">>,
                             args |-> <<StrVal(<<"x">>), IntVal(42)>>], now)
    \/ GlobalContext
    \/ \E s \in Segments : GlobalSetContext(s)
    \/ GlobalClearContext
    \/ \E t \in Targets(G), s \in Segments : GlobalAdd(t, s)
    \/ \E now \in 0..MaxClock : GlobalWrap(StrVal(Boom), now)

SpecGlobal == Init /\ [][NextGlobal]_vars

----------------------------------------------------------------------------
(* Programs that create loggers, switch colours and log *)

NextColor ==
    /\ calls < MaxWideCalls
    /\ \/ \E t \in Targets(G) : CallDefaultLogger(t)
       \/ \E a \in Addr : CallEnableColors(a)
       \/ \E a \in Addr : CallDisableColors(a)
       \/ GlobalEnableColors
       \/ \E a \in Addr, level \in Levels, args \in FormatArgLists, now \in 0..MaxClock :
             CallLog(a, level, args, now)

SpecColor == Init /\ [][NextColor]_vars

----------------------------------------------------------------------------
(* The README's chaining example, run on the package's default logger: the   *)
(* base logger gets colours, SetContext("API") is called as a statement, then *)
(* children are derived with Add and log                                      *)

API == <<"A", "P", "I">>
Auth == <<"A", "u", "t", "h">>
Database == <<"D", "a", "t", "a", "b", "a", "s", "e">>

\* the segments the children are derived with
ChainChildren == {Auth, Database} \cup Segments

NextChain ==
    \/ calls = 0 /\ GlobalEnableColors
    \/ calls = 1 /\ CallSetContext(G, Discard, API)
    \/ calls >= 2 /\ \E t \in Targets(G), s \in ChainChildren : GlobalAdd(t, s)
    \/ calls >= 2 /\ \E a \in Addr, level \in Levels, args \in FormatArgLists,
                         now \in 0..MaxClock : CallLog(a, level, args, now)

SpecChain == Init /\ [][NextChain]_vars

----------------------------------------------------------------------------
(* Programs that configure loggers and then log, read the context and wrap *)

\* the one formatted call these programs make
ReadFormatCall ==
    [format |-> <<"%", "s", "=", "%", "d">>, args |-> <<StrVal(<<"x">>), IntVal(42)>>]

NextRead ==
    /\ calls < MaxWideCalls
    /\ \/ \E a \in Addr, level \in Levels, exclusive, logWrapped \in BOOLEAN :
             AssignFields(a, level, exclusive, logWrapped)
       \/ \E a \in Addr : \E t \in Targets(a), s \in Segments : CallSetContext(a, t, s)
       \/ \E a \in Addr, level \in Levels, now \in 0..MaxClock :
             CallLog(a, level, <<StrVal(<<"x">>)>>, now)
       \/ \E a \in Addr, level \in Levels, now \in 0..MaxClock :
             CallLogf(a, level, ReadFormatCall, now)
       \/ \E a \in Addr : CallContext(a)
       \/ \E a \in Addr, now \in 0..MaxClock : CallWrap(a, StrVal(Boom), now)
       \/ \E level \in Levels, now \in 0..MaxClock :
             GlobalLog(level, <<StrVal(<<"x">>)>>, now)
       \/ \E level \in Levels, now \in 0..MaxClock :
             GlobalLogf(level, ReadFormatCall, now)
       \/ GlobalContext
       \/ \E now \in 0..MaxClock : GlobalWrap(StrVal(Boom), now)

SpecRead == Init /\ [][NextRead]_vars

----------------------------------------------------------------------------
(* Programs that install a logger as the global one and go on changing both *)

NextSnapshot ==
    \/ \E t \in Targets(G) \ {Discard} : CallDefaultLogger(t)
    \/ \E a \in Addr : \E s \in Segments : CallSetContext(a, a, s)
    \/ \E a \in Addr : CallSetAsGlobal(a)
    \/ \E a \in Addr, level \in {LogLevelDebug, LogLevelFatal}, exclusive, logWrapped \in BOOLEAN :
          AssignFields(a, level, exclusive, logWrapped)
    \/ \E a \in Addr : AssignOutput(a, "buf")
    \/ \E a \in Addr : CallClearContext(a)
    \/ \E a \in Addr : CallSetContextSeparator(a, <<":", " ">>)
    \/ \E a \in Addr : CallEnableTimestamps(a)
    \/ \E a \in Addr : CallSetLogLevel(a, LogLevelWarn)
    \/ \E s \in Segments : GlobalSetContext(s)
    \/ GlobalClearContext
    \/ GlobalSetLogLevel(LogLevelInfo)
    \/ GlobalSetContextSeparator(<<>>)
    \/ GlobalEnableTimestamps
    \/ GlobalContext
    \/ \E now \in 0..MaxClock : GlobalLog(LogLevelError, <<StrVal(<<"x">>)>>, now)

SpecSnapshot == Init /\ [][NextSnapshot]_vars

----------------------------------------------------------------------------
(* Programs whose two threads call SetContext and SetLogLevel *)

NextRace ==
    \/ \E context \in Segments : SetContextRead(context)
    \/ SetContextCall
    \/ SetContextAssign
    \/ \E lvl \in Levels : SetLogLevelRead(lvl)
    \/ SetLogLevelCall
    \/ SetLogLevelAssign

SpecRace == Init /\ [][NextRace]_vars

----------------------------------------------------------------------------
(* Properties of the level filter *)

\* the sink the last call's logger wrote to, before the call and now
SinkBefore == last.sinkBefore[last.pre.logger.Output]
SinkNow == sink[last.pre.logger.Output]

\* the last call wrote exactly one chunk, to its logger's sink, after what the
\* sink held
WroteOneLine ==
    /\ Len(SinkNow) = Len(SinkBefore) + 1
    /\ SubSeq(SinkNow, 1, Len(SinkBefore)) = SinkBefore
    /\ \A o \in Sinks \ {last.pre.logger.Output} : sink[o] = last.sinkBefore[o]

\* the last call wrote nothing
WroteNothing == sink = last.sinkBefore

\* C1: with Exclusive = false, a levelled call at level L with at least one
\* argument writes a line iff L >= T, T the logger's Level; otherwise it
\* writes nothing.
NonExclusiveFilter ==
    (/\ last.op \in {"Log", "Fatal"}
     /\ Len(last.arg) >= 1
     /\ ~last.pre.logger.Exclusive) =>
        IF last.level >= last.pre.logger.Level THEN WroteOneLine ELSE WroteNothing

\* C1 witness: a Warn call on a logger at Level Info, not exclusive, wrote
NonExclusiveFilterWitness ==
    /\ last.op = "Log"
    /\ Len(last.arg) >= 1
    /\ ~last.pre.logger.Exclusive
    /\ last.level = LogLevelWarn
    /\ last.pre.logger.Level = LogLevelInfo
    /\ WroteOneLine

\* C2: with Exclusive = true, a levelled call at level L with at least one
\* argument writes a line iff L = T; levels above T are suppressed like
\* levels below it.
ExclusiveFilter ==
    (/\ last.op \in {"Log", "Fatal"}
     /\ Len(last.arg) >= 1
     /\ last.pre.logger.Exclusive) =>
        IF last.level = last.pre.logger.Level THEN WroteOneLine ELSE WroteNothing

\* C2 witness: an Error call on an exclusive logger at Level Warn wrote nothing
ExclusiveFilterWitness ==
    /\ last.op = "Log"
    /\ Len(last.arg) >= 1
    /\ last.pre.logger.Exclusive
    /\ last.level = LogLevelError
    /\ last.pre.logger.Level = LogLevelWarn
    /\ WroteNothing

----------------------------------------------------------------------------
(* Properties of Wrap *)

\* the decimal texts of the numbers Wrap is tried with
NumberTexts == (42 :> <<"4", "2">>)

\* the description of a value: an error's text, a string itself, a number's
\* decimal text
Described(v) ==
    CASE v.kind = "error"  -> errs[v.id].msg
      [] v.kind = "string" -> v.str
      [] OTHER             -> NumberTexts[v.n]

WrapCalled == last.op \in {"Wrap", "GlobalWrap"}

\* C8: Wrap(v) returns an error whose text is Context() + ContextSeparator +
\* the description of v, whatever LogWrappedErrors, Level and Exclusive are;
\* with context "a" and separator " | ", wrapping "boom" or an error whose
\* text is "boom" gives "a | boom".
WrapDescribes ==
    WrapCalled =>
        /\ errs[last.res].msg =
               last.pre.rendered \o last.pre.logger.ContextSeparator \o Described(last.arg)
        /\ (/\ last.pre.elems = << <<"a">> >>
            /\ last.pre.logger.ContextSeparator = <<" ", "|", " ">>
            /\ Described(last.arg) = Boom) =>
               errs[last.res].msg = <<"a", " ", "|", " ", "b", "o", "o", "m">>

\* C8 witness: an error with text "boom" wrapped by a logger with context "a"
\* that logs wrapped errors
WrapDescribesWitness ==
    /\ last.op = "Wrap"
    /\ last.arg.kind = "error"
    /\ last.pre.logger.LogWrappedErrors
    /\ last.pre.elems = << <<"a">> >>
    /\ errs[last.res].msg = <<"a", " ", "|", " ", "b", "o", "o", "m">>

\* C9: errors.Is(Wrap(e), e) holds for every error e, and for everything e
\* itself wraps; no later call takes an error out of another error's chain.
WrapKeepsChain ==
    /\ [](WrapCalled /\ last.arg.kind = "error" =>
            \A t \in DOMAIN errs :
                ErrorsIs(errs, last.arg.id, t) => ErrorsIs(errs, last.res, t))
    /\ [][\A e, t \in DOMAIN errs :
              ErrorsIs(errs, e, t) => ErrorsIs(errs', e, t)]_vars

\* C9 witness: the free function wrapped an error that a logger's method had
\* wrapped before, and the result still leads to the first error
WrapKeepsChainWitness ==
    /\ last.op = "GlobalWrap"
    /\ last.arg.kind = "error"
    /\ errs[last.arg.id].unwrap = 1
    /\ last.res # last.arg.id
    /\ ErrorsIs(errs, last.res, 1)

\* the Error level passes the filter of the logger the last call was made on
ErrorPasses ==
    IF last.pre.logger.Exclusive
    THEN last.pre.logger.Level = LogLevelError
    ELSE last.pre.logger.Level # LogLevelFatal

\* C10: Wrap(v) writes exactly one line, with the Error label and the inner
\* error's text, when LogWrappedErrors is true and Error passes the filter;
\* otherwise it writes nothing. It returns the wrapped error in every case.
WrapLogsOnce ==
    WrapCalled =>
        /\ last.res \in DOMAIN errs
        /\ IF last.pre.logger.LogWrappedErrors /\ ErrorPasses
           THEN /\ WroteOneLine
                /\ HasPrefix(SinkNow[Len(SinkNow)], <<"[", "E", "R", "R", "]", " ">>)
                /\ Contains(SinkNow[Len(SinkNow)], Described(last.arg))
                /\ HasSuffix(SinkNow[Len(SinkNow)], <<"\n">>)
           ELSE WroteNothing

\* C10 witness: an exclusive logger at Level Error that logs wrapped errors
\* wrapped a string and wrote its line
WrapLogsOnceWitness ==
    /\ last.op = "Wrap"
    /\ last.arg.kind = "string"
    /\ last.pre.logger.LogWrappedErrors
    /\ last.pre.logger.Exclusive
    /\ last.pre.logger.Level = LogLevelError
    /\ WroteOneLine
    /\ Contains(SinkNow[Len(SinkNow)], last.arg.str)

----------------------------------------------------------------------------
(* Properties of the context chain *)

\* the segments the logger at address a shows
Segs(a) == Elems(arrays, heap[a].context)

\* logger l with its context header replaced by that of logger m
WithContextOf(l, m) == [l EXCEPT !.context = m.context]

\* C3: Add never mutates the parent. After c := p.Add(s), p's cell holds the
\* struct it held before, p.Context() renders what it rendered before, c's
\* segments are p's segments followed by s, and c's other fields equal p's.
AddLeavesParent ==
    last.op \in {"Add", "GlobalAdd"} =>
        /\ last.res # last.recv =>
              /\ heap[last.recv] = last.pre.logger
              /\ Segs(last.recv) = last.pre.elems
              /\ Context(arrays, heap[last.recv]) = last.pre.rendered
        /\ last.res # Discard =>
              /\ Segs(last.res) = Append(last.pre.elems, last.arg)
              /\ WithContextOf(heap[last.res], last.pre.logger) = last.pre.logger

\* C3 witness: an Add that wrote into the spare room of the parent's own
\* backing array, the child kept in a variable of its own
AddLeavesParentWitness ==
    /\ last.op = "Add"
    /\ last.res \notin {Discard, last.recv}
    /\ last.pre.logger.context.len < last.pre.logger.context.cap
    /\ heap[last.res].context.arr = heap[last.recv].context.arr

\* C4: loggers derived by Add are independent copies. No call changes the
\* segments of a logger other than the one the call assigns its result to
\* (or, for ClearContext, its receiver).
DerivedLoggersIndependent ==
    [][\A c \in (DOMAIN heap \cap DOMAIN heap') \ {last'.res} :
           Elems(arrays', heap'[c].context) = Elems(arrays, heap[c].context)]_vars

\* C5: SetContext(a) then Add(b) renders a + sep + b, and the rendering
\* follows the logger's current separator: a separator set afterwards on a
\* two-segment logger renders first + sep + second.
ContextJoinsWithSeparator ==
    /\ (/\ last.op \in {"Add", "GlobalAdd"}
        /\ last.res # Discard
        /\ Len(last.pre.elems) = 1) =>
           Context(arrays, heap[last.res]) =
               last.pre.elems[1] \o heap[last.res].ContextSeparator \o last.arg
    /\ (/\ last.op \in {"SetContextSeparator", "GlobalSetContextSeparator"}
        /\ Len(last.pre.elems) = 2) =>
           Context(arrays, heap[last.recv]) =
               last.pre.elems[1] \o last.arg \o last.pre.elems[2]

\* C5 witness: a child added to a one-segment logger whose separator is not
\* the default one
ContextJoinsWithSeparatorWitness ==
    /\ last.op = "Add"
    /\ last.res # Discard
    /\ Len(last.pre.elems) = 1
    /\ last.pre.elems[1] # <<>>
    /\ last.pre.logger.ContextSeparator = <<":", " ">>
    /\ Context(arrays, heap[last.res]) = last.pre.elems[1] \o <<":", " ">> \o last.arg

\* C6: after ClearContext, by the method or by the free function, the same
\* logger renders the empty string and its other fields are unchanged.
ClearContextEmpties ==
    last.op \in {"ClearContext", "GlobalClearContext"} =>
        /\ Context(arrays, heap[last.recv]) = <<>>
        /\ WithContextOf(heap[last.recv], last.pre.logger) = last.pre.logger

\* C6 witness: the free function clears a global logger that rendered text
ClearContextEmptiesWitness ==
    /\ last.op = "GlobalClearContext"
    /\ last.recv = G
    /\ last.pre.rendered # <<>>
    /\ Context(arrays, heap[G]) = <<>>

\* C7: SetContext returns a logger whose context is the single segment s and
\* whose other fields equal the receiver's; the receiver keeps its context
\* and fields.
SetContextReturnsCopy ==
    /\ last.op = "SetContext" =>
          /\ last.res # Discard =>
                /\ Segs(last.res) = <<last.arg>>
                /\ WithContextOf(heap[last.res], last.pre.logger) = last.pre.logger
          /\ last.res # last.recv =>
                /\ heap[last.recv] = last.pre.logger
                /\ Segs(last.recv) = last.pre.elems
    /\ last.op = "GlobalSetContext" =>
          /\ Segs(G) = <<last.arg>>
          /\ WithContextOf(heap[G], last.pre.logger) = last.pre.logger

\* C7 witness: SetContext on a logger with two segments, the result kept in
\* another variable
SetContextReturnsCopyWitness ==
    /\ last.op = "SetContext"
    /\ last.res \notin {Discard, last.recv}
    /\ Len(last.pre.elems) = 2
    /\ Segs(last.recv) = last.pre.elems
    /\ Segs(last.res) = <<last.arg>>

----------------------------------------------------------------------------
(* Properties of the default logger *)

\* the line an Error("x") call of a default logger writes
DefaultErrorLine == <<"[", "E", "R", "R", "]", " ", "x", "\n">>

\* the logger the last call was made on was as DefaultLogger makes it, but for
\* its Output
WasDefault ==
    /\ last.pre.logger.Level = LogLevelError
    /\ ~last.pre.logger.Exclusive
    /\ last.pre.logger.NoColor
    /\ ~last.pre.logger.ShowTimestamps
    /\ last.pre.logger.ContextSeparator = <<" ", "|", " ">>
    /\ last.pre.elems = << <<>> >>

\* C11: DefaultLogger() returns a logger with Level Error, not exclusive,
\* colours off, separator " | ", writing to standard error; of the calls
\* Debug("x"), Info("x"), Warn("x"), Error("x") on such a logger, in any order,
\* only Error writes, and it writes the one line "[ERR] x".
DefaultWritesErrorOnly ==
    /\ (last.op = "DefaultLogger" /\ last.res # Discard) =>
           /\ heap[last.res].Level = LogLevelError
           /\ ~heap[last.res].Exclusive
           /\ heap[last.res].NoColor
           /\ colorNoColor
           /\ heap[last.res].ContextSeparator = <<" ", "|", " ">>
           /\ heap[last.res].Output = "stderr"
    /\ (last.op = "Log" /\ last.arg = <<StrVal(<<"x">>)>> /\ WasDefault) =>
           IF last.level = LogLevelError
           THEN WroteOneLine /\ SinkNow[Len(SinkNow)] = DefaultErrorLine
           ELSE WroteNothing
    /\ \A o \in Sinks : \A i \in 1..Len(sink[o]) : sink[o][i] = DefaultErrorLine

\* C11 witness: the fourth call of a program is a Debug("x") on a logger that
\* DefaultLogger() returned; standard error holds the Error line of an earlier
\* call and nothing else
DefaultWritesErrorOnlyWitness ==
    /\ calls = 4
    /\ last.op = "Log"
    /\ last.level = LogLevelDebug
    /\ last.recv # G
    /\ WasDefault
    /\ last.pre.logger.Output = "stderr"
    /\ sink["stderr"] = <<DefaultErrorLine>>
    /\ WroteNothing

----------------------------------------------------------------------------
(* Properties of Fatal and Fatalf *)

FatalCalled == last.op \in {"Fatal", "Fatalf"}

\* the Fatal level passes the filter of the logger the last call was made on
FatalPasses == ~last.pre.logger.Exclusive \/ last.pre.logger.Level = LogLevelFatal

\* the last chunk of the sink starts with the Fatal label and ends the line
WroteFatalLine ==
    /\ WroteOneLine
    /\ HasPrefix(SinkNow[Len(SinkNow)], <<"[", "F", "A", "T", "A", "L", "]", " ">>)
    /\ HasSuffix(SinkNow[Len(SinkNow)], <<"\n">>)

\* C12: every call of Fatal or Fatalf ends the process with exit status 1,
\* whatever Level and Exclusive are and whether or not the message passed the
\* filter; no call is made once the process has exited.
FatalAlwaysExits ==
    /\ [](FatalCalled => exited /\ last.res = 1)
    /\ [](exited => FatalCalled)
    /\ [][~exited]_vars

\* C12 witness: Fatalf on an exclusive logger whose Level is not Fatal wrote
\* nothing and the process exited
FatalAlwaysExitsWitness ==
    /\ last.op = "Fatalf"
    /\ last.pre.logger.Exclusive
    /\ last.pre.logger.Level = LogLevelWarn
    /\ WroteNothing
    /\ exited

\* the last call was a Fatalf, or a Fatal that carried a message
FatalCalledWithMessage == FatalCalled /\ (last.op = "Fatal" => Len(last.arg) >= 1)

\* C13 as stated: every Fatal or Fatalf call (that carries a message) writes
\* its FATAL line to the sink before the process exits, for every Level and
\* Exclusive.
FatalAlwaysLogs == FatalCalledWithMessage => WroteFatalLine /\ exited

\* C13 amended: a Fatalf call, or a Fatal call with at least one argument,
\* writes its FATAL line before the process exits when the Fatal level passes
\* the filter (Exclusive false, or Level Fatal); when it does not, nothing is
\* written and the process exits all the same.
FatalLogsWhenFilterPasses ==
    FatalCalledWithMessage =>
        /\ exited
        /\ IF FatalPasses THEN WroteFatalLine ELSE WroteNothing

\* C13 witness: Fatal("x") on a logger at Level Fatal, not exclusive, wrote
\* its line and the process exited
FatalLogsWhenFilterPassesWitness ==
    /\ last.op = "Fatal"
    /\ Len(last.arg) >= 1
    /\ ~last.pre.logger.Exclusive
    /\ last.pre.logger.Level = LogLevelFatal
    /\ WroteFatalLine
    /\ exited

----------------------------------------------------------------------------
(* Properties of the line format *)

\* the message body of a levelled call: the descriptions of its arguments,
\* one space between them
Body(args) == Join([i \in 1..Len(args) |-> Described(args[i])], <<" ">>)

\* the last call was a levelled call that wrote a line
LogWrote == last.op = "Log" /\ Len(last.arg) >= 1 /\ WroteOneLine

\* the line the last call wrote
LastLine == SinkNow[Len(SinkNow)]

DigitChars == {"0", "1", "2", "3", "4", "5", "6", "7", "8", "9"}

\* s starts with YYYY-MM-DD HH:MM:SS.mmm and one space
TimestampShaped(s) ==
    /\ Len(s) >= 24
    /\ \A i \in {1, 2, 3, 4, 6, 7, 9, 10, 12, 13, 15, 16, 18, 19, 21, 22, 23} :
           s[i] \in DigitChars
    /\ s[5] = "-" /\ s[8] = "-" /\ s[11] = " "
    /\ s[14] = ":" /\ s[17] = ":" /\ s[20] = "." /\ s[24] = " "

\* the line without its timestamp, if it has one
AfterTimestamp(s) == IF TimestampShaped(s) THEN SubSeq(s, 25, Len(s)) ELSE s

\* the text that follows the label: the message alone when the context
\* rendered empty, else context, separator, message
Rest(rendered, sep, body) ==
    IF rendered = <<>> THEN body ELSE rendered \o sep \o body

\* the labels of the Info and Error lines, as they are written
ExampleLabels ==
    (LogLevelInfo :> <<"[", "I", "N", "F", "]", " ">>) @@
    (LogLevelError :> <<"[", "E", "R", "R", "]", " ">>)

\* C14: a line is [timestamp] + "[LABEL] " + rest + line end; rest is the
\* message alone when the context renders as the empty string, otherwise
\* Context() + ContextSeparator + message, for every separator: "[INF] x",
\* "[INF] a | x", "[INF] a: x", and the same after "[ERR] ".
FormatBuildsLine ==
    (LogWrote /\ last.pre.logger.NoColor) =>
        /\ AfterTimestamp(LastLine) =
               <<"[">> \o labels[last.level] \o <<"]", " ">>
                   \o Rest(last.pre.rendered, last.pre.logger.ContextSeparator,
                           Body(last.arg))
                   \o <<"\n">>
        /\ (/\ last.level \in DOMAIN ExampleLabels
            /\ last.arg = <<StrVal(<<"x">>)>>
            /\ ~last.pre.logger.ShowTimestamps) =>
               /\ last.pre.elems \in {<<>>, << <<>> >>} =>
                      LastLine = ExampleLabels[last.level] \o <<"x", "\n">>
               /\ (/\ last.pre.elems = << <<"a">> >>
                   /\ last.pre.logger.ContextSeparator = <<" ", "|", " ">>) =>
                      LastLine = ExampleLabels[last.level]
                                     \o <<"a", " ", "|", " ", "x", "\n">>
               /\ (/\ last.pre.elems = << <<"a">> >>
                   /\ last.pre.logger.ContextSeparator = <<":", " ">>) =>
                      LastLine = ExampleLabels[last.level]
                                     \o <<"a", ":", " ", "x", "\n">>

\* C14 witness: a logger whose context was cleared wrote the label directly
\* followed by the message
FormatBuildsLineWitness ==
    /\ LogWrote
    /\ last.pre.elems = <<>>
    /\ last.pre.logger.ContextSeparator # <<>>
    /\ last.arg = <<StrVal(<<"x">>)>>
    /\ LastLine = <<"[", "E", "R", "R", "]", " ", "x", "\n">>

\* the last call set ShowTimestamps of its receiver to flag and nothing else
TimestampsSet(flag) ==
    /\ heap[last.recv].ShowTimestamps = flag
    /\ [heap[last.recv] EXCEPT !.ShowTimestamps = last.pre.logger.ShowTimestamps]
           = last.pre.logger

\* C15: a line starts with a timestamp and one space, ahead of the label, iff
\* ShowTimestamps is true at the call; with the flag false the line begins
\* with the label. EnableTimestamps sets the flag and DisableTimestamps resets
\* it, on the receiver and, by the free functions, on the global logger.
TimestampFollowsFlag ==
    /\ (LogWrote /\ last.pre.logger.NoColor) =>
           /\ TimestampShaped(LastLine) <=> last.pre.logger.ShowTimestamps
           /\ HasPrefix(AfterTimestamp(LastLine), <<"[">> \o labels[last.level] \o <<"]", " ">>)
    /\ last.op \in {"EnableTimestamps", "GlobalEnableTimestamps"} => TimestampsSet(TRUE)
    /\ last.op \in {"DisableTimestamps", "GlobalDisableTimestamps"} => TimestampsSet(FALSE)
    /\ last.op \in {"GlobalEnableTimestamps", "GlobalDisableTimestamps"} => last.recv = G

\* C15 witness: the global logger, after the free function EnableTimestamps,
\* wrote a line that starts with a timestamp
TimestampFollowsFlagWitness ==
    /\ LogWrote
    /\ last.recv = G
    /\ last.pre.logger.ShowTimestamps
    /\ TimestampShaped(LastLine)
    /\ HasPrefix(AfterTimestamp(LastLine), <<"[", "E", "R", "R", "]", " ">>)

\* the line up to the message body, the body being the last n characters
\* before the line end
Lead(line, n) == SubSeq(line, 1, Len(line) - n - 1)

\* C16: the message body of a line is the coercion of each argument (a string
\* itself, an error's text, another value's textual form), in argument order,
\* joined by exactly one space; one argument gives its coercion alone. The
\* body stands between the context part and the line end.
BodyJoinsArguments ==
    LogWrote =>
        /\ HasSuffix(LastLine, Body(last.arg) \o <<"\n">>)
        /\ HasSuffix(Lead(LastLine, Len(Body(last.arg))),
                     <<"]", " ">> \o Rest(last.pre.rendered,
                                          last.pre.logger.ContextSeparator, <<>>))
        /\ Len(last.arg) = 1 => Body(last.arg) = Described(last.arg[1])
        /\ last.arg = <<StrVal(<<"x">>), ErrVal(1), IntVal(42)>> =>
               HasSuffix(LastLine, <<"]", " ">>
                             \o Rest(last.pre.rendered,
                                     last.pre.logger.ContextSeparator, <<>>)
                             \o <<"x", " ", "b", "o", "o", "m", " ", "4", "2", "\n">>)

\* C16 witness: a line for a string, an error and a number
BodyJoinsArgumentsWitness ==
    /\ LogWrote
    /\ last.arg = <<StrVal(<<"x">>), ErrVal(1), IntVal(42)>>
    /\ last.pre.rendered = <<"a">>
    /\ LastLine = <<"[", "E", "R", "R", "]", " ", "a", " ", "|", " ",
                    "x", " ", "b", "o", "o", "m", " ", "4", "2", "\n">>

----------------------------------------------------------------------------
(* Properties of the formatted calls *)

LogfCalled == last.op \in {"Logf", "Fatalf"}

\* the texts the formats of FormatCalls interpolate to
Interpolated(call) ==
    CASE call.format = <<"x">> -> <<"x">>
      [] call.format = <<"%", "s", "=", "%", "d">> -> <<"x", "=", "4", "2">>
      [] OTHER -> <<"e", ":", " ">> \o errs[call.args[1].id].msg

\* C17: Xf(f, a...) has the same effect on the sink as X(s), s the
\* interpolation of f with a, for every level X and every logger state: the
\* line X(s) writes at some reading of the clock, or nothing when the filter
\* rejects X.
LogfIsLogOfSprintf ==
    LogfCalled =>
        \E now \in 0..MaxClock :
            sink = [last.sinkBefore EXCEPT ![last.pre.logger.Output] =
                       @ \o log(errs, arrays, heap[last.recv], last.level,
                                <<StrVal(Interpolated(last.arg))>>, now, colorNoColor)]

\* C17 witness: Infof("e: %v", err) on a logger with a context
\* wrote the line of Info("e: boom")
LogfIsLogOfSprintfWitness ==
    /\ last.op = "Logf"
    /\ last.level = LogLevelInfo
    /\ last.arg.format = <<"e", ":", " ", "%", "v">>
    /\ last.pre.rendered = <<"a">>
    /\ WroteOneLine
    /\ HasSuffix(SinkNow[Len(SinkNow)],
                 <<"[", "I", "N", "F", "]", " ", "a", " ", "|", " ",
                   "e", ":", " ", "b", "o", "o", "m", "\n">>)

----------------------------------------------------------------------------
(* Properties of the free functions *)

GlobalOps ==
    {"GlobalLog", "GlobalLogf", "GlobalContext", "GlobalAdd", "GlobalWrap",
     "GlobalSetContext", "GlobalClearContext"}

\* the level of the last call passes the filter of the logger it was made on
LevelPasses ==
    IF last.pre.logger.Exclusive
    THEN last.pre.logger.Level = last.level
    ELSE last.pre.logger.Level <= last.level

\* the line a logger without colours and timestamps writes for a message
\* body at the level of the last call
PlainLine(body) ==
    <<"[">> \o labels[last.level] \o <<"]", " ">>
        \o Rest(last.pre.rendered, last.pre.logger.ContextSeparator, body)
        \o <<"\n">>

\* the last call, a free function, wrote what the method writes for body on
\* the logger it was made on
WroteAsMethod(body) ==
    IF LevelPasses THEN WroteOneLine /\ LastLine = PlainLine(body) ELSE WroteNothing

\* C18: the free functions act on the logger G points to when they are
\* called. l.SetAsGlobal() points G at a copy of l, so the free functions
\* that follow log to l's sink with l's context and filter and return what
\* l's methods return; a later SetAsGlobal redirects them; a global
\* SetContext(s) shows in the global Context() at once.
GlobalDelegates ==
    /\ [][last'.op \in GlobalOps =>
              /\ last'.recv = G
              /\ last'.pre.logger = heap[G]
              /\ last'.pre.elems = Elems(arrays, heap[G].context)]_vars
    /\ [](last.op = "SetAsGlobal" =>
              /\ heap[G] = last.pre.logger
              /\ Segs(G) = last.pre.elems)
    /\ [](last.op = "GlobalLog" => WroteAsMethod(Body(last.arg)))
    /\ [](last.op = "GlobalLogf" => WroteAsMethod(<<"x", "=", "4", "2">>))
    /\ [](last.op = "GlobalContext" =>
              last.res = Join(last.pre.elems, last.pre.logger.ContextSeparator))
    /\ [](last.op = "GlobalSetContext" =>
              Join(Segs(G), heap[G].ContextSeparator) = last.arg)
    /\ [](last.op = "GlobalClearContext" => Segs(G) = <<>>)
    /\ [](last.op = "GlobalAdd" /\ last.res # Discard =>
              /\ Segs(last.res) = Append(last.pre.elems, last.arg)
              /\ heap[last.res].Output = last.pre.logger.Output)
    /\ [](last.op = "GlobalWrap" =>
              errs[last.res].msg =
                  last.pre.rendered \o last.pre.logger.ContextSeparator
                      \o Described(last.arg))

\* C18 witness: a logger l with context "a" that writes to the buffer was
\* installed (G's cell is a copy of l's, down to the backing array), and the
\* free function Error("x") wrote its line to the buffer
GlobalDelegatesWitness ==
    /\ last.op = "GlobalLog"
    /\ last.recv = G
    /\ \E l \in DOMAIN heap \ {G} : heap[l] = heap[G]
    /\ heap[G].Output = "buf"
    /\ Segs(G) = << <<"a">> >>
    /\ sink["buf"] = << <<"[", "E", "R", "R", "]", " ", "a", " ", "|", " ", "x", "\n">> >>
    /\ sink["stderr"] = <<>>

----------------------------------------------------------------------------
(* Properties of the colours *)

\* the line starts with the escape sequence of its level's colour
Colorized(line, level) == HasPrefix(line, labelColors[level] \o <<"[">>)

\* C19: the label of a line a logger writes is colorized iff the logger's own
\* NoColor is false, after any sequence of DefaultLogger(), EnableColors()
\* and DisableColors() calls on any loggers; EnableColors sets the receiver's
\* NoColor to false and DisableColors sets it to true.
LabelColorFollowsLogger ==
    /\ LogWrote => (Colorized(LastLine, last.level) <=> ~last.pre.logger.NoColor)
    /\ last.op \in {"EnableColors", "GlobalEnableColors"} => ~heap[last.recv].NoColor
    /\ last.op = "DisableColors" => heap[last.recv].NoColor

----------------------------------------------------------------------------
(* Properties of the number of context segments *)

\* C20 as stated: in every reachable state every logger's context sequence
\* has at least one element.
ContextNeverEmpty == \A a \in DOMAIN heap : heap[a].context.len >= 1

ClearOps == {"ClearContext", "GlobalClearContext"}

\* C20 amended: DefaultLogger, SetContext and Add, as methods or as free
\* functions, return a logger with at least one context element; ClearContext
\* leaves its receiver with none; a logger has no element only if ClearContext
\* emptied it, or if SetAsGlobal copied it from a logger that had none, and
\* nothing was set since.
ContextEmptyOnlyByClear ==
    /\ [](/\ last.op \in {"DefaultLogger", "SetContext", "GlobalSetContext",
                           "Add", "GlobalAdd"}
           /\ last.res # Discard
           => Len(Segs(last.res)) >= 1)
    /\ [](last.op \in ClearOps => Len(Segs(last.recv)) = 0)
    /\ [][\A c \in DOMAIN heap' :
              heap'[c].context.len = 0 =>
                  \/ last'.op \in ClearOps /\ c = last'.recv
                  \/ /\ last'.op = "SetAsGlobal"
                     /\ c = G'
                     /\ heap[last'.recv].context.len = 0
                  \/ c \in DOMAIN heap /\ heap[c].context.len = 0]_vars

\* C20 witness: a child added to a logger that ClearContext had emptied has
\* the one segment added
ContextEmptyOnlyByClearWitness ==
    /\ last.op = "Add"
    /\ last.res \notin {Discard, last.recv}
    /\ last.pre.elems = <<>>
    /\ Segs(last.recv) = <<>>
    /\ Segs(last.res) = <<last.arg>>

----------------------------------------------------------------------------
(* Properties of the README's examples *)

\* C21: in the chaining example, the children derived with Add("Auth") and
\* Add("Database") after the statement baseLogger.SetContext("API") write
\* lines whose context prefix is "API | Auth | " and "API | Database | ".
ChainedChildrenCarryBase ==
    (/\ LogWrote
     /\ last.recv # G
     /\ Len(last.pre.elems) >= 1
     /\ last.pre.elems[Len(last.pre.elems)] \in {Auth, Database}) =>
        /\ last.pre.rendered =
               API \o <<" ", "|", " ">> \o last.pre.elems[Len(last.pre.elems)]
        /\ Contains(LastLine,
                    API \o <<" ", "|", " ">> \o last.pre.elems[Len(last.pre.elems)]
                        \o <<" ", "|", " ">>)

\* C22: a child derived with the free function Add(s) from the initial
\* default global logger, whose context was never set, renders its context as
\* exactly s, and writes its lines as label, s, separator, message.
GlobalChildRendersSegment ==
    /\ (/\ last.op = "GlobalAdd"
        /\ last.res # Discard
        /\ last.pre.elems = << <<>> >>) =>
           Join(Segs(last.res), heap[last.res].ContextSeparator) = last.arg
    /\ (/\ LogWrote
        /\ last.pre.logger.NoColor
        /\ ~last.pre.logger.ShowTimestamps
        /\ Len(last.pre.elems) = 2
        /\ last.pre.elems[1] = <<>>) =>
           LastLine = <<"[">> \o labels[last.level] \o <<"]", " ">>
                          \o last.pre.elems[2] \o last.pre.logger.ContextSeparator
                          \o Body(last.arg) \o <<"\n">>

----------------------------------------------------------------------------
(* Properties of the sink *)

\* the number of line ends in a text
RECURSIVE LineEnds(_)
LineEnds(s) ==
    IF Len(s) = 0 THEN 0
    ELSE (IF s[1] = "\n" THEN 1 ELSE 0) + LineEnds(Tail(s))

\* C23: the sink is append-only and ordered. No call changes what a sink
\* holds; a call adds at most one chunk, after the others. A levelled call
\* that passes the filter and carries an argument adds exactly one line, which
\* ends in the line terminator; a rejected call adds nothing.
SinkAppendsInOrder ==
    /\ [][\A o \in Sinks :
              /\ Len(sink'[o]) \in {Len(sink[o]), Len(sink[o]) + 1}
              /\ SubSeq(sink'[o], 1, Len(sink[o])) = sink[o]]_vars
    /\ [](last.op \in {"Log", "Fatal"} =>
              IF LevelPasses /\ Len(last.arg) >= 1
              THEN /\ WroteOneLine
                   /\ HasSuffix(LastLine, <<"\n">>)
                   /\ LineEnds(LastLine) = 1
              ELSE WroteNothing)

\* C23 witness: a logger other than the global one wrote the second line of
\* standard error, which the global logger writes to as well
SinkAppendsInOrderWitness ==
    /\ last.op = "Log"
    /\ last.recv # G
    /\ last.pre.logger.Output = "stderr"
    /\ heap[G].Output = "stderr"
    /\ Len(sink["stderr"]) = 2
    /\ last.sinkBefore["stderr"] = <<sink["stderr"][1]>>

\* C24: a levelled call without message arguments writes nothing, also when
\* its level passes the filter, and leaves the logger as it was.
NoArgumentsNoLine ==
    (last.op \in {"Log", "Fatal"} /\ Len(last.arg) = 0) =>
        /\ WroteNothing
        /\ heap[last.recv] = last.pre.logger
        /\ Segs(last.recv) = last.pre.elems

\* C24 witness: Error() on a logger at Level Info wrote nothing
NoArgumentsNoLineWitness ==
    /\ last.op = "Log"
    /\ Len(last.arg) = 0
    /\ last.level = LogLevelError
    /\ last.pre.logger.Level = LogLevelInfo
    /\ ~last.pre.logger.Exclusive
    /\ WroteNothing

----------------------------------------------------------------------------
(* Properties of the calls that only read the logger *)

ReadOps ==
    {"Log", "Logf", "Context", "Wrap",
     "GlobalLog", "GlobalLogf", "GlobalContext", "GlobalWrap"}

----------------------------------------------------------------------------
(* Properties of installing a logger as the global one *)

\* the changes the caller makes to a logger it holds
HolderChanges ==
    {"AssignFields", "AssignOutput", "ClearContext", "SetContextSeparator",
     "EnableTimestamps", "SetLogLevel"}

\* the changes made through the free functions
GlobalChanges ==
    {"GlobalSetContext", "GlobalClearContext", "GlobalSetLogLevel",
     "GlobalSetContextSeparator", "GlobalEnableTimestamps"}

\* C26: l.SetAsGlobal() points G at a copy of l, in a cell of its own; a
\* later change to a logger the caller holds leaves the global logger and its
\* context as they were, and a change through a free function leaves every
\* logger the caller holds, and its context, as it was.
SetAsGlobalInstallsSnapshot ==
    /\ [](last.op = "SetAsGlobal" =>
              /\ G # last.recv
              /\ heap[G] = last.pre.logger
              /\ Segs(G) = last.pre.elems
              /\ heap[last.recv] = last.pre.logger
              /\ Segs(last.recv) = last.pre.elems)
    /\ [][last'.op \in HolderChanges /\ last'.recv # G =>
              /\ G' = G
              /\ heap'[G] = heap[G]
              /\ Segs(G)' = Segs(G)]_vars
    /\ [][last'.op \in GlobalChanges =>
              \A a \in DOMAIN heap \ {G} :
                  /\ a \in DOMAIN heap'
                  /\ heap'[a] = heap[a]
                  /\ Segs(a)' = Segs(a)]_vars

\* C26 witness: the logger that was installed got another level afterwards,
\* or the global logger did, and the two, still on one context slice, differ
SetAsGlobalInstallsSnapshotWitness ==
    /\ last.op \in {"SetLogLevel", "GlobalSetLogLevel"}
    /\ \E a \in DOMAIN heap \ {G} :
           /\ heap[a].context = heap[G].context
           /\ heap[a].Level # heap[G].Level
           /\ heap[a].Output = "buf"
           /\ heap[G].Output = "buf"

----------------------------------------------------------------------------
(* Properties of unsynchronised calls of the free functions *)

\* both threads have returned
BothReturned ==
    /\ threads.SetContext.pc = "done"
    /\ threads.SetLogLevel.pc = "done"

\* the global logger shows what SetContext(context) did
ContextKept == Segs(G) = <<threads.SetContext.context>>

\* the global logger shows what SetLogLevel(lvl) did
LevelKept == heap[G].Level = threads.SetLogLevel.lvl

====
